---- MODULE Spec2Model ----
(***************************************************************************)
(* A model of the in-memory product catalog of src/server.js: the products *)
(* array, the middleware chain (JSON body parser, authenticateApiKey,      *)
(* validateProduct), the route handlers and the global error handler.      *)
(*                                                                         *)
(* JavaScript values are tagged records [t, v]; text is a TLA+ string and  *)
(* a price is an integer number of cents (1299.99 is 129999).              *)
(***************************************************************************)
EXTENDS Integers, Sequences, FiniteSets, TLC

VARIABLES products, issued, removed, req, res

vars == <<products, issued, removed, req, res>>

-----------------------------------------------------------------------------
(* Bounds of the model.                                                    *)

\* uuidv4() calls allowed after the seed collection is built
MaxInserts == 1

\* the largest page number and page size the pagination claim ranges over
MaxNumeral == 10

-----------------------------------------------------------------------------
(* JavaScript values.                                                      *)

Undefined == [t |-> "undefined", v |-> 0]
Null == [t |-> "null", v |-> 0]
NaN == [t |-> "NaN", v |-> 0]
Infinity == [t |-> "Infinity", v |-> 0]
Str(s) == [t |-> "string", v |-> s]
\* a finite number, held in hundredths
Num(n) == [t |-> "number", v |-> n]
\* a finite integer
Whole(n) == Num(100 * n)
Bool(b) == [t |-> "boolean", v |-> b]

\* typeof x
TypeOf(x) ==
  CASE x.t \in {"number", "NaN", "Infinity"} -> "number"
    [] x.t = "null" -> "object"
    [] OTHER -> x.t

\* !x : undefined, null, NaN, 0, "" and false are falsy
Falsy(x) ==
  CASE x.t \in {"undefined", "null", "NaN"} -> TRUE
    [] x.t = "number" -> x.v = 0
    [] x.t = "string" -> x.v = ""
    [] x.t = "boolean" -> ~x.v
    [] OTHER -> FALSE

\* Boolean(x)
ToBoolean(x) == Bool(~Falsy(x))

-----------------------------------------------------------------------------
(* Strings.                                                                *)

CharAt(s, i) == SubSeq(s, i, i)

IsWhitespace(c) == c \in {" ", "\t", "\n"}

RECURSIVE TrimStart(_)
TrimStart(s) ==
  IF Len(s) > 0 /\ IsWhitespace(CharAt(s, 1))
  THEN TrimStart(SubSeq(s, 2, Len(s)))
  ELSE s

RECURSIVE TrimEnd(_)
TrimEnd(s) ==
  IF Len(s) > 0 /\ IsWhitespace(CharAt(s, Len(s)))
  THEN TrimEnd(SubSeq(s, 1, Len(s) - 1))
  ELSE s

\* String.prototype.trim
Trim(s) == TrimEnd(TrimStart(s))

UpperCaseLetters == "ABCDEFGHIJKLMNOPQRSTUVWXYZ"
LowerCaseLetters == "abcdefghijklmnopqrstuvwxyz"

\* the lower-case letter of each upper-case letter
LowerCaseOf ==
  [c \in {CharAt(UpperCaseLetters, i) : i \in 1..Len(UpperCaseLetters)} |->
     CharAt(LowerCaseLetters,
            CHOOSE i \in 1..Len(UpperCaseLetters) : CharAt(UpperCaseLetters, i) = c)]

LowerChar(c) == IF c \in DOMAIN LowerCaseOf THEN LowerCaseOf[c] ELSE c

RECURSIVE ToLowerCase(_)
\* String.prototype.toLowerCase
ToLowerCase(s) ==
  IF s = "" THEN ""
  ELSE LowerChar(CharAt(s, 1)) \o ToLowerCase(SubSeq(s, 2, Len(s)))

\* String.prototype.includes
Includes(s, sub) ==
  \E i \in 1..(Len(s) - Len(sub) + 1) : SubSeq(s, i, i + Len(sub) - 1) = sub

RECURSIVE Join(_, _)
\* Array.prototype.join over a sequence of strings
Join(parts, sep) ==
  IF Len(parts) = 0 THEN ""
  ELSE IF Len(parts) = 1 THEN parts[1]
  ELSE parts[1] \o sep \o Join(Tail(parts), sep)

-----------------------------------------------------------------------------
(* Numbers and their text.                                                 *)

DecimalDigits == "0123456789"

IsDigit(c) == c /= "" /\ \E i \in 1..10 : CharAt(DecimalDigits, i) = c

DigitValue(c) == (CHOOSE i \in 1..10 : CharAt(DecimalDigits, i) = c) - 1

RECURSIVE NatToString(_)
NatToString(n) ==
  IF n < 10 THEN CharAt(DecimalDigits, n + 1)
  ELSE NatToString(n \div 10) \o CharAt(DecimalDigits, (n % 10) + 1)

\* Number::toString of a finite number held in cents: no trailing zeros
CentsToString(c) ==
  LET a == IF c < 0 THEN 0 - c ELSE c
      whole == NatToString(a \div 100)
      frac == a % 100
      fracText == IF frac = 0 THEN ""
                  ELSE IF frac % 10 = 0 THEN "." \o NatToString(frac \div 10)
                  ELSE "." \o NatToString(frac \div 10) \o NatToString(frac % 10)
  IN (IF c < 0 THEN "-" ELSE "") \o whole \o fracText

\* Number.prototype.toFixed(2) of a number held in cents
ToFixed2(c) ==
  LET a == IF c < 0 THEN 0 - c ELSE c
  IN (IF c < 0 THEN "-" ELSE "") \o NatToString(a \div 100) \o "."
       \o NatToString((a % 100) \div 10) \o NatToString(a % 10)

\* ToString(x) for the values the handlers convert
JSToString(x) ==
  CASE x.t = "string" -> x.v
    [] x.t = "number" -> CentsToString(x.v)
    [] x.t = "boolean" -> IF x.v THEN "true" ELSE "false"
    [] OTHER -> x.t

RECURSIVE DigitPrefixLen(_, _)
\* number of leading decimal digits of s from position i
DigitPrefixLen(s, i) ==
  IF i <= Len(s) /\ IsDigit(CharAt(s, i)) THEN 1 + DigitPrefixLen(s, i + 1) ELSE 0

RECURSIVE DigitsValue(_)
DigitsValue(s) ==
  IF s = "" THEN 0
  ELSE 10 * DigitsValue(SubSeq(s, 1, Len(s) - 1)) + DigitValue(CharAt(s, Len(s)))

\* parseInt(x) with the default radix: leading whitespace, a sign, then the
\* longest run of decimal digits; NaN when there is none
ParseInt(x) ==
  LET s == TrimStart(JSToString(x))
      neg == Len(s) > 0 /\ CharAt(s, 1) = "-"
      signed == Len(s) > 0 /\ CharAt(s, 1) \in {"-", "+"}
      from == IF signed THEN 2 ELSE 1
      n == DigitPrefixLen(s, from)
      mag == DigitsValue(SubSeq(s, from, from + n - 1))
  IN IF n = 0 THEN NaN ELSE Whole(IF neg THEN 0 - mag ELSE mag)

\* parseFloat(x): leading whitespace, a sign, digits, then a fraction; the
\* result is held in cents, NaN when no digit is read
ParseFloat(x) ==
  LET s == TrimStart(JSToString(x))
      neg == Len(s) > 0 /\ CharAt(s, 1) = "-"
      signed == Len(s) > 0 /\ CharAt(s, 1) \in {"-", "+"}
      from == IF signed THEN 2 ELSE 1
      n == DigitPrefixLen(s, from)
      dot == from + n
      hasDot == dot <= Len(s) /\ CharAt(s, dot) = "."
      m == IF hasDot THEN DigitPrefixLen(s, dot + 1) ELSE 0
      whole == DigitsValue(SubSeq(s, from, from + n - 1))
      tenths == IF m >= 1 THEN DigitValue(CharAt(s, dot + 1)) ELSE 0
      hundredths == IF m >= 2 THEN DigitValue(CharAt(s, dot + 2)) ELSE 0
      mag == 100 * whole + 10 * tenths + hundredths
  IN IF n = 0 /\ m = 0 THEN NaN ELSE Num(IF neg THEN 0 - mag ELSE mag)

-----------------------------------------------------------------------------
(* JavaScript arithmetic on integers that may be NaN.                      *)

IsFinite(x) == x.t = "number"

JSub(a, b) == IF IsFinite(a) /\ IsFinite(b) THEN Num(a.v - b.v) ELSE NaN

\* a * b for integers (both held in hundredths)
JMul(a, b) == IF IsFinite(a) /\ IsFinite(b) THEN Num((a.v * b.v) \div 100) ELSE NaN

\* a < b and a > b: false as soon as one side is NaN
JLess(a, b) == IsFinite(a) /\ IsFinite(b) /\ a.v < b.v
JGreater(a, b) == IsFinite(a) /\ IsFinite(b) /\ a.v > b.v
JLessEq(a, b) == IsFinite(a) /\ IsFinite(b) /\ a.v <= b.v

\* Math.floor in the place of Math.ceil
FloorDiv(n, d) ==
  CASE ~IsFinite(d) -> NaN
    [] d.v = 0 -> IF n = 0 THEN NaN ELSE Infinity
    [] d.v > 0 -> Whole(n \div (d.v \div 100))
    [] OTHER -> Whole(0 - ((n + (0 - (d.v \div 100)) - 1) \div (0 - (d.v \div 100))))

\* Math.ceil(n / d) for an array length n and an integer d that may be NaN
CeilDiv(n, d) ==
  CASE ~IsFinite(d) -> NaN
    [] d.v = 0 -> IF n = 0 THEN NaN ELSE Infinity
    [] d.v > 0 -> Whole((n + (d.v \div 100) - 1) \div (d.v \div 100))
    [] OTHER -> Whole(0 - (n \div (0 - (d.v \div 100))))

\* ToIntegerOrInfinity of a slice bound: NaN is 0
SliceBound(x, len) ==
  LET k == IF IsFinite(x) THEN x.v \div 100 ELSE 0
  IN IF k < 0 THEN (IF len + k < 0 THEN 0 ELSE len + k)
     ELSE (IF k > len THEN len ELSE k)

\* Array.prototype.slice(start, end), bounds 0-based, end exclusive
Slice(arr, start, end) ==
  LET from == SliceBound(start, Len(arr))
      to == SliceBound(end, Len(arr))
  IN IF to > from THEN SubSeq(arr, from + 1, to) ELSE <<>>

-----------------------------------------------------------------------------
(* The collection.                                                         *)

NumSeeds == 5

\* the text of the n-th identifier uuidv4 hands out
Uuid(n) == "uuid-" \o NatToString(n)

\* a generator that hands out the latest identifier again
Uuidv4Repeating(count) == Uuid(count)

\* uuidv4(): an identifier no earlier call returned
Uuidv4(count) == Uuid(count + 1)

Product(id, name, description, price, category, inStock) ==
  [id |-> id, name |-> name, description |-> description, price |-> price,
   category |-> category, inStock |-> inStock]

SeedProducts ==
  << Product(Uuid(1), Str("Gaming Laptop"),
             Str("High-performance laptop for gaming and productivity"),
             Num(129999), Str("Electronics"), Bool(TRUE)),
     Product(Uuid(2), Str("Smartphone Pro"),
             Str("Latest flagship smartphone with advanced camera"),
             Num(89999), Str("Electronics"), Bool(TRUE)),
     Product(Uuid(3), Str("Coffee Maker"),
             Str("Automatic drip coffee maker with programmable timer"),
             Num(7999), Str("Kitchen"), Bool(FALSE)),
     Product(Uuid(4), Str("Ergonomic Office Chair"),
             Str("Comfortable office chair with lumbar support"),
             Num(24999), Str("Furniture"), Bool(TRUE)),
     Product(Uuid(5), Str("Wireless Mouse"),
             Str("Precision wireless mouse with long battery life"),
             Num(3999), Str("Electronics"), Bool(TRUE)) >>

\* products.findIndex(p => p.id === id): 0-based, -1 when absent
FindIndex(arr, id) ==
  IF \E i \in 1..Len(arr) : arr[i].id = id
  THEN (CHOOSE i \in 1..Len(arr) : arr[i].id = id /\ \A j \in 1..(i - 1) : arr[j].id /= id) - 1
  ELSE -1

\* a replace that drops the old record and pushes the new one
SetAtEnd(arr, index, product) ==
  Append(SubSeq(arr, 1, index) \o SubSeq(arr, index + 2, Len(arr)), product)

\* products[index] = product
SetAt(arr, index, product) == [arr EXCEPT ![index + 1] = product]

\* a splice one position too far
SpliceNext(arr, index) == SubSeq(arr, 1, index + 1) \o SubSeq(arr, index + 3, Len(arr))

\* products.splice(index, 1)
Splice(arr, index) == SubSeq(arr, 1, index) \o SubSeq(arr, index + 2, Len(arr))

Ids(arr) == {arr[i].id : i \in 1..Len(arr)}

-----------------------------------------------------------------------------
(* Errors and the middleware chain.                                        *)

NoError == [name |-> "", statusCode |-> 0, message |-> ""]

NotFoundError(message) == [name |-> "NotFoundError", statusCode |-> 404, message |-> message]
ValidationError(message) == [name |-> "ValidationError", statusCode |-> 400, message |-> message]
AuthenticationError(message) ==
  [name |-> "AuthenticationError", statusCode |-> 401, message |-> message]

\* express.json(): a body that is not JSON ends the chain with the parser's
\* own error, which is none of the three classes above
JsonBodyParser(r) ==
  IF r.parsed THEN NoError
  ELSE [name |-> "SyntaxError", statusCode |-> 400, message |-> "Unexpected token in JSON"]

\* process.env.API_KEY || 'your-secret-api-key'
ValidApiKey == "your-secret-api-key"

\* an authentication that only asks for a key to be present
AuthenticateApiKeyPresent(r) ==
  IF Falsy(r.key) THEN AuthenticationError("API key is required") ELSE NoError

AuthenticateApiKey(r) ==
  IF Falsy(r.key) THEN AuthenticationError("API key is required")
  ELSE IF r.key /= Str(ValidApiKey) THEN AuthenticationError("Invalid API key")
  ELSE NoError

NameMessage == "Name is required and must be at least 2 characters"
DescriptionMessage == "Description is required and must be at least 5 characters"
PriceMessage == "Price is required and must be a positive number"
CategoryMessage == "Category is required and must be at least 2 characters"
InStockMessage == "inStock is required and must be a boolean value"

\* a validation that measures the text before trimming
ValidationErrorsUntrimmed(body) ==
  (IF Falsy(body.name) \/ TypeOf(body.name) /= "string" \/ Len(body.name.v) < 2
   THEN <<NameMessage>> ELSE <<>>)
  \o (IF Falsy(body.description) \/ TypeOf(body.description) /= "string"
         \/ Len(body.description.v) < 5
      THEN <<DescriptionMessage>> ELSE <<>>)
  \o (IF Falsy(body.price) \/ TypeOf(body.price) /= "number" \/ JLessEq(body.price, Num(0))
      THEN <<PriceMessage>> ELSE <<>>)
  \o (IF Falsy(body.category) \/ TypeOf(body.category) /= "string"
         \/ Len(body.category.v) < 2
      THEN <<CategoryMessage>> ELSE <<>>)
  \o (IF TypeOf(body.inStock) /= "boolean" THEN <<InStockMessage>> ELSE <<>>)

\* a validation that stops at the first violation
ValidationErrorsFirstOnly(body) ==
  IF Falsy(body.name) \/ TypeOf(body.name) /= "string" \/ Len(Trim(body.name.v)) < 2
  THEN <<NameMessage>>
  ELSE IF Falsy(body.description) \/ TypeOf(body.description) /= "string"
          \/ Len(Trim(body.description.v)) < 5
  THEN <<DescriptionMessage>>
  ELSE IF Falsy(body.price) \/ TypeOf(body.price) /= "number" \/ JLessEq(body.price, Num(0))
  THEN <<PriceMessage>>
  ELSE IF Falsy(body.category) \/ TypeOf(body.category) /= "string"
          \/ Len(Trim(body.category.v)) < 2
  THEN <<CategoryMessage>>
  ELSE IF TypeOf(body.inStock) /= "boolean" THEN <<InStockMessage>>
  ELSE <<>>

\* the errors array validateProduct builds for a body
ValidationErrors(body) ==
  (IF Falsy(body.name) \/ TypeOf(body.name) /= "string" \/ Len(Trim(body.name.v)) < 2
   THEN <<NameMessage>> ELSE <<>>)
  \o (IF Falsy(body.description) \/ TypeOf(body.description) /= "string"
         \/ Len(Trim(body.description.v)) < 5
      THEN <<DescriptionMessage>> ELSE <<>>)
  \o (IF Falsy(body.price) \/ TypeOf(body.price) /= "number" \/ JLessEq(body.price, Num(0))
      THEN <<PriceMessage>> ELSE <<>>)
  \o (IF Falsy(body.category) \/ TypeOf(body.category) /= "string"
         \/ Len(Trim(body.category.v)) < 2
      THEN <<CategoryMessage>> ELSE <<>>)
  \o (IF TypeOf(body.inStock) /= "boolean" THEN <<InStockMessage>> ELSE <<>>)

ValidateProduct(r) ==
  LET errors == ValidationErrors(r.body)
  IN IF Len(errors) > 0
     THEN ValidationError("Validation failed: " \o Join(errors, ", "))
     ELSE NoError

\* the global error handler's response
ErrorResponse(err) ==
  IF err.name \in {"NotFoundError", "ValidationError", "AuthenticationError"}
  THEN [status |-> err.statusCode, body |-> [error |-> err.name, message |-> err.message]]
  ELSE [status |-> 500,
        body |-> [error |-> "InternalServerError",
                  message |-> "Something went wrong on the server"]]

\* the first error of the chain body parser, authentication, validation
MutationChain(r, validates) ==
  IF JsonBodyParser(r) /= NoError THEN JsonBodyParser(r)
  ELSE IF AuthenticateApiKey(r) /= NoError THEN AuthenticateApiKey(r)
  ELSE IF validates THEN ValidateProduct(r)
  ELSE NoError

\* a record built without trimming
NormalizedProductUntrimmed(id, body) ==
  Product(id, body.name, body.description, ParseFloat(body.price), body.category,
          ToBoolean(body.inStock))

\* the record POST and PUT build from a validated body
NormalizedProduct(id, body) ==
  Product(id, Str(Trim(body.name.v)), Str(Trim(body.description.v)),
          ParseFloat(body.price), Str(Trim(body.category.v)), ToBoolean(body.inStock))

-----------------------------------------------------------------------------
(* Requests.                                                               *)

Body(name, description, price, category, inStock) ==
  [name |-> name, description |-> description, price |-> price,
   category |-> category, inStock |-> inStock]

\* req.body of a request that carries no JSON
EmptyBody == Body(Undefined, Undefined, Undefined, Undefined, Undefined)

Query(category, search, page, limit, inStock) ==
  [category |-> category, search |-> search, page |-> page, limit |-> limit,
   inStock |-> inStock]

EmptyQuery == Query(Undefined, Undefined, Undefined, Undefined, Undefined)

\* key: req.headers['x-api-key']; parsed: whether express.json() accepted the body
Request(op, key, parsed, body, id, query) ==
  [op |-> op, key |-> key, parsed |-> parsed, body |-> body, id |-> id, query |-> query]

NoRequest == Request("", Undefined, TRUE, EmptyBody, "", EmptyQuery)

NoResponse == [status |-> 0, body |-> [message |-> ""]]

-----------------------------------------------------------------------------
(* The query pipeline of GET /api/products.                                *)

FilterByCategory(arr, category) ==
  IF Falsy(category) THEN arr
  ELSE SelectSeq(arr, LAMBDA p : ToLowerCase(p.category.v) = ToLowerCase(category.v))

FilterByStock(arr, inStock) ==
  IF inStock = Undefined THEN arr
  ELSE LET stockFilter == Bool(inStock = Str("true"))
       IN SelectSeq(arr, LAMBDA p : p.inStock = stockFilter)

FilterBySearch(arr, search) ==
  IF Falsy(search) THEN arr
  ELSE LET searchTerm == ToLowerCase(search.v)
       IN SelectSeq(arr, LAMBDA p :
            \/ Includes(ToLowerCase(p.name.v), searchTerm)
            \/ Includes(ToLowerCase(p.description.v), searchTerm)
            \/ Includes(ToLowerCase(p.category.v), searchTerm))

FilteredProducts(arr, q) ==
  FilterBySearch(FilterByStock(FilterByCategory(arr, q.category), q.inStock), q.search)

DefaultPage == 1
DefaultLimit == 10

\* const { page = 1, limit = 10 } = req.query
PageParam(q) == IF q.page = Undefined THEN Whole(DefaultPage) ELSE q.page
LimitParam(q) == IF q.limit = Undefined THEN Whole(DefaultLimit) ELSE q.limit

StartIndex(pageNum, limitNum) == JMul(JSub(pageNum, Whole(1)), limitNum)
EndIndex(pageNum, limitNum) == JMul(pageNum, limitNum)

ListResponse(arr, q) ==
  LET filteredProducts == FilteredProducts(arr, q)
      pageNum == ParseInt(PageParam(q))
      limitNum == ParseInt(LimitParam(q))
      startIndex == StartIndex(pageNum, limitNum)
      endIndex == EndIndex(pageNum, limitNum)
  IN [status |-> 200,
      body |-> [products |-> Slice(filteredProducts, startIndex, endIndex),
                pagination |->
                  [currentPage |-> pageNum,
                   totalPages |-> CeilDiv(Len(filteredProducts), limitNum),
                   totalProducts |-> Len(filteredProducts),
                   hasNext |-> JLess(endIndex, Whole(Len(filteredProducts))),
                   hasPrev |-> JGreater(startIndex, Whole(0))]]]

-----------------------------------------------------------------------------
(* Statistics of GET /api/products/stats.                                  *)

\* property names every object literal inherits from Object.prototype
ObjectPrototypeKeys ==
  {"constructor", "toString", "toLocaleString", "valueOf", "hasOwnProperty",
   "isPrototypeOf", "propertyIsEnumerable", "__proto__", "__defineGetter__",
   "__defineSetter__", "__lookupGetter__", "__lookupSetter__"}

\* one forEach step on stats.categoryCounts (own properties: key -> value).
\* An own count is incremented; an own NaN or a missing key is set to 1; a key
\* found on Object.prototype is truthy, ++ turns it into NaN, which becomes
\* an own property, except for __proto__, whose setter ignores a number.
CountCategory(counts, key) ==
  IF key \in DOMAIN counts
  THEN IF Falsy(counts[key])
       THEN [counts EXCEPT ![key] = Whole(1)]
       ELSE [counts EXCEPT ![key] = JSub(counts[key], Whole(-1))]
  ELSE IF key \in ObjectPrototypeKeys
       THEN IF key = "__proto__" THEN counts
            ELSE [k \in DOMAIN counts \cup {key} |-> IF k = key THEN NaN ELSE counts[k]]
       ELSE [k \in DOMAIN counts \cup {key} |-> IF k = key THEN Whole(1) ELSE counts[k]]

RECURSIVE CategoryCounts(_)
CategoryCounts(arr) ==
  IF Len(arr) = 0 THEN [k \in {} |-> Whole(0)]
  ELSE CountCategory(CategoryCounts(SubSeq(arr, 1, Len(arr) - 1)), arr[Len(arr)].category.v)

RECURSIVE TotalPrice(_)
TotalPrice(arr) ==
  IF Len(arr) = 0 THEN 0 ELSE TotalPrice(SubSeq(arr, 1, Len(arr) - 1)) + arr[Len(arr)].price.v

\* (totalPrice / products.length).toFixed(2): rounded to the nearest cent
AveragePrice(arr) ==
  IF Len(arr) > 0
  THEN Str(ToFixed2((2 * TotalPrice(arr) + Len(arr)) \div (2 * Len(arr))))
  ELSE Whole(0)

StatsResponse(arr) ==
  [status |-> 200,
   body |-> [totalProducts |-> Len(arr),
             inStockCount |-> Len(SelectSeq(arr, LAMBDA p : ~Falsy(p.inStock))),
             outOfStockCount |-> Len(SelectSeq(arr, LAMBDA p : Falsy(p.inStock))),
             categoryCounts |-> CategoryCounts(arr),
             averagePrice |-> AveragePrice(arr),
             totalValue |-> Str(ToFixed2(TotalPrice(arr)))]]

-----------------------------------------------------------------------------
(* The route handlers, each with its middleware chain.                     *)

Init ==
  /\ products = SeedProducts
  /\ issued = NumSeeds
  /\ removed = {}
  /\ req = NoRequest
  /\ res = NoResponse

Reject(r, err) ==
  /\ req' = r
  /\ res' = ErrorResponse(err)
  /\ UNCHANGED <<products, issued, removed>>

\* GET /api/products
GetProducts(r) ==
  /\ r.op = "LIST"
  /\ req' = r
  /\ res' = ListResponse(products, r.query)
  /\ UNCHANGED <<products, issued, removed>>

\* GET /api/products/stats
GetStats(r) ==
  /\ r.op = "STATS"
  /\ req' = r
  /\ res' = StatsResponse(products)
  /\ UNCHANGED <<products, issued, removed>>

\* products.find(p => p.id === id), then the product or NotFoundError
GetByIdResponse(arr, id) ==
  IF \E i \in 1..Len(arr) : arr[i].id = id
  THEN [status |-> 200, body |-> arr[FindIndex(arr, id) + 1]]
  ELSE ErrorResponse(NotFoundError("Product not found"))

\* GET /api/products/:id
GetProductById(r) ==
  /\ r.op = "GET"
  /\ req' = r
  /\ res' = GetByIdResponse(products, r.id)
  /\ UNCHANGED <<products, issued, removed>>

\* POST /api/products
PostProduct(r) ==
  /\ r.op = "POST"
  /\ LET err == MutationChain(r, TRUE)
     IN IF err /= NoError THEN Reject(r, err)
        ELSE /\ issued < NumSeeds + MaxInserts
             /\ LET newProduct == NormalizedProduct(Uuidv4(issued), r.body)
                IN /\ products' = Append(products, newProduct)
                   /\ res' = [status |-> 201,
                              body |-> [message |-> "Product created successfully",
                                        product |-> newProduct]]
             /\ issued' = issued + 1
             /\ req' = r
             /\ UNCHANGED removed

\* PUT /api/products/:id
PutProduct(r) ==
  /\ r.op = "PUT"
  /\ LET err == MutationChain(r, TRUE)
         productIndex == FindIndex(products, r.id)
     IN IF err /= NoError THEN Reject(r, err)
        ELSE IF productIndex = -1 THEN Reject(r, NotFoundError("Product not found"))
        ELSE /\ products' = SetAt(products, productIndex, NormalizedProduct(r.id, r.body))
             /\ res' = [status |-> 200,
                        body |-> [message |-> "Product updated successfully",
                                  product |-> products'[productIndex + 1]]]
             /\ req' = r
             /\ UNCHANGED <<issued, removed>>

\* DELETE /api/products/:id
DeleteProduct(r) ==
  /\ r.op = "DELETE"
  /\ LET err == MutationChain(r, FALSE)
         productIndex == FindIndex(products, r.id)
     IN IF err /= NoError THEN Reject(r, err)
        ELSE IF productIndex = -1 THEN Reject(r, NotFoundError("Product not found"))
        ELSE /\ products' = Splice(products, productIndex)
             /\ res' = [status |-> 200,
                        body |-> [message |-> "Product deleted successfully",
                                  product |-> products[productIndex + 1]]]
             /\ removed' = removed \cup {r.id}
             /\ req' = r
             /\ UNCHANGED issued

-----------------------------------------------------------------------------
(* The requests the specifications draw from.                              *)

ValidKey == Str(ValidApiKey)

\* x-api-key: absent, empty, wrong, right
ApiKeys == {Undefined, Str(""), Str("wrong-key"), ValidKey}

IdParams == {Uuid(n) : n \in 1..(NumSeeds + MaxInserts)} \cup {"no-such-id"}

LampBody ==
  Body(Str("  Desk Lamp "), Str("LED desk lamp with dimmer\n"), Num(2550),
       Str(" furniture"), Bool(FALSE))

\* the payload {name: "a", price: -5}
ShortBody == Body(Str("a"), Undefined, Num(-500), Undefined, Undefined)

BlankNameBody ==
  Body(Str(" a "), Str("Ceramic mug"), Num(500), Str("Kitchen"), Bool(TRUE))

TextPriceBody ==
  Body(Str("Mug"), Str("Ceramic mug"), Str("5"), Str("Kitchen"), Str("true"))

PostRequest(key, parsed, body) == Request("POST", key, parsed, body, "", EmptyQuery)
PutRequest(key, parsed, body, id) == Request("PUT", key, parsed, body, id, EmptyQuery)
DeleteRequest(key, parsed, id) == Request("DELETE", key, parsed, EmptyBody, id, EmptyQuery)
GetRequest(id) == Request("GET", Undefined, TRUE, EmptyBody, id, EmptyQuery)
StatsRequest == Request("STATS", Undefined, TRUE, EmptyBody, "", EmptyQuery)
ListRequest(q) == Request("LIST", Undefined, TRUE, EmptyBody, "", q)

-----------------------------------------------------------------------------
(* The catalog under any sequence of requests.                             *)

PostRequests ==
  {PostRequest(ValidKey, TRUE, b) : b \in {LampBody, ShortBody, BlankNameBody, TextPriceBody}}
    \cup {PostRequest(Undefined, TRUE, LampBody), PostRequest(ValidKey, FALSE, EmptyBody)}

PutRequests ==
  {PutRequest(ValidKey, TRUE, LampBody, id) : id \in IdParams}
    \cup {PutRequest(ValidKey, TRUE, ShortBody, id) : id \in {Uuid(1), "no-such-id"}}
    \cup {PutRequest(Str("wrong-key"), TRUE, LampBody, Uuid(1))}

DeleteRequests ==
  {DeleteRequest(ValidKey, TRUE, id) : id \in IdParams}
    \cup {DeleteRequest(Undefined, TRUE, Uuid(1))}

GetRequests == {GetRequest(id) : id \in IdParams}

ListRequests ==
  {ListRequest(EmptyQuery),
   ListRequest(Query(Str("Electronics"), Undefined, Str("1"), Str("2"), Undefined))}

Post == \E r \in PostRequests : PostProduct(r)
Put == \E r \in PutRequests : PutProduct(r)
Delete == \E r \in DeleteRequests : DeleteProduct(r)
Get == \E r \in GetRequests : GetProductById(r)
Stats == GetStats(StatsRequest)
List == \E r \in ListRequests : GetProducts(r)

Next == Post \/ Put \/ Delete \/ Get \/ Stats \/ List

Spec == Init /\ [][Next]_vars

-----------------------------------------------------------------------------
(* Authentication: every key against parsed and unparsed bodies.           *)

AuthIds == {Uuid(1), Uuid(NumSeeds + 1), "no-such-id"}

AuthBodies == {LampBody, ShortBody}

AuthPostRequests ==
  {PostRequest(k, TRUE, b) : k \in ApiKeys, b \in AuthBodies}
    \cup {PostRequest(k, FALSE, EmptyBody) : k \in ApiKeys}

AuthPutRequests ==
  {PutRequest(k, TRUE, b, id) : k \in ApiKeys, b \in AuthBodies, id \in AuthIds}
    \cup {PutRequest(k, FALSE, EmptyBody, id) : k \in ApiKeys, id \in AuthIds}

AuthDeleteRequests ==
  {DeleteRequest(k, p, id) : k \in ApiKeys, p \in BOOLEAN, id \in AuthIds}

AuthPost == \E r \in AuthPostRequests : PostProduct(r)
AuthPut == \E r \in AuthPutRequests : PutProduct(r)
AuthDelete == \E r \in AuthDeleteRequests : DeleteProduct(r)

NextAuth == AuthPost \/ AuthPut \/ AuthDelete

SpecAuth == Init /\ [][NextAuth]_vars

-----------------------------------------------------------------------------
(* Validation: payloads built from every combination of field values.      *)

NameValues == {Undefined, Str(" a "), Str("ab")}
DescriptionValues == {Undefined, Str("abcd "), Str("abcde")}
PriceValues == {Num(0), Str("12"), Num(1)}
CategoryValues == {Undefined, Str(" x"), Str("xy")}
InStockValues == {Undefined, Str("true"), Bool(FALSE)}

NumberNameBody == Body(Num(1200), Str("abcde"), Num(1), Str("xy"), Null)

ValidateBodies ==
  {Body(n, d, p, c, s) : n \in NameValues, d \in DescriptionValues, p \in PriceValues,
                         c \in CategoryValues, s \in InStockValues}
    \cup {ShortBody, NumberNameBody}

ValidatePostRequests == {PostRequest(ValidKey, TRUE, b) : b \in ValidateBodies}
ValidatePutRequests == {PutRequest(ValidKey, TRUE, b, Uuid(1)) : b \in ValidateBodies}

ValidatePost == \E r \in ValidatePostRequests : PostProduct(r)
ValidatePut == \E r \in ValidatePutRequests : PutProduct(r)

NextValidate == ValidatePost \/ ValidatePut

SpecValidate == Init /\ [][NextValidate]_vars

-----------------------------------------------------------------------------
(* The query pipeline: every combination of query parameters.              *)

CategoryParams == {Undefined, Str(""), Str("electronics"), Str("Toys")}
SearchParams == {Undefined, Str("PRO")}
PageParams == {Undefined, Str("2"), Str("3"), Str("abc")}
LimitParams == {Undefined, Str("2"), Str("abc"), Str("0")}

QueryParams ==
  {Query(c, s, p, l, Undefined) : c \in CategoryParams, s \in SearchParams,
                                  p \in PageParams, l \in LimitParams}
    \cup {Query(c, Undefined, p, Str("1"), i) :
            c \in {Undefined, Str("Electronics")}, p \in {Str("1"), Str("4")},
            i \in {Str("true"), Str("no")}}

QueryListRequests == {ListRequest(q) : q \in QueryParams}
QueryPostRequest == PostRequest(ValidKey, TRUE, LampBody)
QueryDeleteRequest == DeleteRequest(ValidKey, TRUE, Uuid(1))

QueryList == \E r \in QueryListRequests : GetProducts(r)
QueryPost == PostProduct(QueryPostRequest)
QueryDelete == DeleteProduct(QueryDeleteRequest)

NextQuery == QueryList \/ QueryPost \/ QueryDelete

SpecQuery == Init /\ [][NextQuery]_vars

-----------------------------------------------------------------------------
(* Statistics over collections of any size and category.                   *)

MugBody ==
  Body(Str("Mug"), Str("Ceramic mug"), Num(500), Str("constructor"), Bool(TRUE))

StatsPostRequests == {PostRequest(ValidKey, TRUE, b) : b \in {LampBody, MugBody}}
StatsDeleteRequests == {DeleteRequest(ValidKey, TRUE, id) : id \in IdParams}

StatsPost == \E r \in StatsPostRequests : PostProduct(r)
StatsDelete == \E r \in StatsDeleteRequests : DeleteProduct(r)

StatsGet == GetStats(StatsRequest)

NextStats == StatsPost \/ StatsDelete \/ StatsGet

SpecStats == Init /\ [][NextStats]_vars

-----------------------------------------------------------------------------
(* The field constraints of a product, as the data model states them.      *)

TextOk(x, min) == x.t = "string" /\ Len(Trim(x.v)) >= min
PriceOk(x) == x.t = "number" /\ x.v > 0
FlagOk(x) == x.t = "boolean"

FieldsOk(p) ==
  /\ TextOk(p.name, 2)
  /\ TextOk(p.description, 5)
  /\ PriceOk(p.price)
  /\ TextOk(p.category, 2)
  /\ FlagOk(p.inStock)

\* a request that passes the body parser and authentication with a valid payload
Accepted(r) == r.parsed /\ r.key = ValidKey /\ FieldsOk(r.body)

\* the record the data model expects for a valid payload stored under id
Stored(id, body, p) ==
  /\ p.id = id
  /\ p.name = Str(Trim(body.name.v))
  /\ p.description = Str(Trim(body.description.v))
  /\ p.price = body.price
  /\ p.category = Str(Trim(body.category.v))
  /\ p.inStock = body.inStock

IdSeq(arr) == [i \in 1..Len(arr) |-> arr[i].id]

-----------------------------------------------------------------------------
(* Claims about the collection under Spec.                                 *)

\* C1: in every reachable state every product of the collection satisfies
\* all five field constraints.
C1_FieldConstraints == \A i \in 1..Len(products) : FieldsOk(products[i])

\* a payload whose name is too short once trimmed was rejected after a
\* product had been created
C1_Witness ==
  /\ req.op = "POST" /\ req.body = BlankNameBody /\ res.status = 400
  /\ Len(products) > NumSeeds

\* C2: the ids in the collection are pairwise distinct in every reachable
\* state; an insert assigns an id no product of the collection has, and a
\* replace leaves the id of every product as it was.
C2_UniqueIds ==
  /\ [](\A i, j \in 1..Len(products) : i /= j => products[i].id /= products[j].id)
  /\ [][/\ (req'.op = "POST" /\ res'.status = 201)
             => res'.body.product.id \notin Ids(products)
        /\ req'.op = "PUT" => IdSeq(products') = IdSeq(products)]_vars

\* a product was replaced while a created product was in the collection
C2_Witness ==
  /\ req.op = "PUT" /\ res.status = 200
  /\ Len(products) > NumSeeds

\* C7: an authenticated insert of a valid payload appends exactly one record,
\* leaves the earlier records and their order alone, and getById on the
\* returned id yields the normalized payload under that id.
C7_InsertThenGet ==
  [][(req'.op = "POST" /\ Accepted(req'))
       => /\ res'.status = 201
          /\ Len(products') = Len(products) + 1
          /\ SubSeq(products', 1, Len(products)) = products
          /\ products'[Len(products')] = res'.body.product
          /\ LET got == GetByIdResponse(products', res'.body.product.id)
             IN /\ got.status = 200
                /\ Stored(res'.body.product.id, req'.body, got.body)]_vars

\* a payload with surrounding whitespace was inserted
C7_Witness ==
  /\ req.op = "POST" /\ req.body = LampBody /\ res.status = 201
  /\ products[Len(products)].name = Str("Desk Lamp")

\* C8: an authenticated replace with a valid payload signals NotFound and
\* changes nothing when the id is absent; otherwise the product keeps its id
\* and position, takes the fields of the normalized payload, and the length
\* and every other product stay as they were.
C8_Replace ==
  [][(req'.op = "PUT" /\ Accepted(req'))
       => IF req'.id \notin Ids(products)
          THEN /\ res'.status = 404 /\ res'.body.error = "NotFoundError"
               /\ products' = products
          ELSE /\ res'.status = 200
               /\ Len(products') = Len(products)
               /\ \A i \in 1..Len(products) :
                    IF products[i].id = req'.id
                    THEN /\ Stored(req'.id, req'.body, products'[i])
                         /\ res'.body.product = products'[i]
                    ELSE products'[i] = products[i]
               /\ GetByIdResponse(products', req'.id).status = 200
               /\ Stored(req'.id, req'.body, GetByIdResponse(products', req'.id).body)]_vars

\* the second product of a longer collection was replaced
C8_Witness ==
  /\ req.op = "PUT" /\ req.id = Uuid(2) /\ res.status = 200
  /\ Len(products) >= 3 /\ products[2].id = Uuid(2)
  /\ products[2].name = Str("Desk Lamp")

\* C9: once an id has been removed, getById on it signals NotFound in every
\* later state, whatever requests follow; removing an absent id signals
\* NotFound and changes nothing.
C9_RemovedStaysRemoved ==
  /\ [](\A id \in removed :
          /\ id \notin Ids(products)
          /\ GetByIdResponse(products, id).status = 404
          /\ GetByIdResponse(products, id).body.error = "NotFoundError")
  /\ [][(req'.op = "DELETE" /\ req'.parsed /\ req'.key = ValidKey)
          => IF req'.id \in Ids(products)
             THEN res'.status = 200 /\ req'.id \in removed'
             ELSE /\ res'.status = 404 /\ res'.body.error = "NotFoundError"
                  /\ products' = products]_vars

\* a product was created after another had been removed, and a replace of
\* the removed id was then refused
C9_Witness ==
  /\ req.op = "PUT" /\ req.id \in removed /\ res.status = 404
  /\ Len(products) > 0 /\ products[Len(products)].id = Uuid(NumSeeds + 1)

-----------------------------------------------------------------------------
(* Claims about authentication under SpecAuth.                             *)

Mutating(r) == r.op \in {"POST", "PUT", "DELETE"}

-----------------------------------------------------------------------------
(* Claims about validation under SpecValidate.                             *)

\* the messages of the rules a payload violates, in the order of the rules
ViolatedRules(body) ==
  (IF TextOk(body.name, 2) THEN <<>> ELSE <<NameMessage>>)
  \o (IF TextOk(body.description, 5) THEN <<>> ELSE <<DescriptionMessage>>)
  \o (IF PriceOk(body.price) THEN <<>> ELSE <<PriceMessage>>)
  \o (IF TextOk(body.category, 2) THEN <<>> ELSE <<CategoryMessage>>)
  \o (IF FlagOk(body.inStock) THEN <<>> ELSE <<InStockMessage>>)

AllFiveMessage ==
  "Validation failed: Name is required and must be at least 2 characters, "
  \o "Description is required and must be at least 5 characters, "
  \o "Price is required and must be a positive number, "
  \o "Category is required and must be at least 2 characters, "
  \o "inStock is required and must be a boolean value"

\* C4: validation reports exactly the violated rules among the five, each
\* judged on its own and listed in the fixed order; the request fails with
\* ValidationError (400) iff at least one rule is violated, and the payload
\* {name: "a", price: -5} is answered with all five.
C4_AllViolationsReported ==
  (req.op \in {"POST", "PUT"} /\ req.parsed /\ req.key = ValidKey)
    => /\ (ViolatedRules(req.body) = <<>>) <=> (res.status /= 400)
       /\ ViolatedRules(req.body) /= <<>>
            => /\ res.body.error = "ValidationError"
               /\ res.body.message
                    = "Validation failed: " \o Join(ViolatedRules(req.body), ", ")
       /\ req.body = ShortBody => res.body.message = AllFiveMessage

\* a payload violating the second and the fifth rule only was refused
C4_Witness ==
  /\ req.op = "POST" /\ res.status = 400
  /\ ViolatedRules(req.body) = <<DescriptionMessage, InStockMessage>>

-----------------------------------------------------------------------------
(* Claims about the query pipeline under SpecQuery.                        *)

\* a filter is given when its parameter is a non-empty string
Given(x) == x.t = "string" /\ x.v /= ""

Matches(p, q) ==
  /\ Given(q.category) => ToLowerCase(p.category.v) = ToLowerCase(q.category.v)
  /\ q.inStock /= Undefined => p.inStock = Bool(q.inStock.v = "true")
  /\ Given(q.search) =>
       \/ Includes(ToLowerCase(p.name.v), ToLowerCase(q.search.v))
       \/ Includes(ToLowerCase(p.description.v), ToLowerCase(q.search.v))
       \/ Includes(ToLowerCase(p.category.v), ToLowerCase(q.search.v))

\* the products that pass every given filter, in collection order
Matching(arr, q) == SelectSeq(arr, LAMBDA p : Matches(p, q))

\* the parameter is the decimal numeral of n, or is omitted and n the default
NumeralIs(x, n, default) == IF x = Undefined THEN n = default ELSE x = Str(NatToString(n))

ThirdPageOfTwo == Query(Undefined, Undefined, Str("3"), Str("2"), Undefined)

NonNumeric(x) == x.t = "string" /\ \A i \in 1..Len(x.v) : ~IsDigit(CharAt(x.v, i))

WithDefaults(q) ==
  Query(q.category, q.search,
        IF NonNumeric(q.page) THEN Undefined ELSE q.page,
        IF NonNumeric(q.limit) THEN Undefined ELSE q.limit,
        q.inStock)

\* C6: a non-numeric page is read as page 1 and a non-numeric limit as limit
\* 10, so the response is the one the same query gets with the parameter
\* omitted.
C6_NonNumericDefaults ==
  (req.op = "LIST" /\ (NonNumeric(req.query.page) \/ NonNumeric(req.query.limit)))
    => res = ListResponse(products, WithDefaults(req.query))

-----------------------------------------------------------------------------
(* Claims about the statistics under SpecStats.                            *)

CategoriesPresent == {products[i].category.v : i \in 1..Len(products)}

\* C10: statistics report totalProducts as the collection size, inStockCount
\* and outOfStockCount adding up to it, and categoryCounts with exactly the
\* categories present as keys, each with the number of products in it; for
\* the empty collection averagePrice is 0 and categoryCounts is empty.
C10_Statistics ==
  req.op = "STATS" =>
    /\ res.body.totalProducts = Len(products)
    /\ res.body.inStockCount + res.body.outOfStockCount = res.body.totalProducts
    /\ DOMAIN res.body.categoryCounts = CategoriesPresent
    /\ \A c \in CategoriesPresent :
         res.body.categoryCounts[c]
           = Whole(Cardinality({i \in 1..Len(products) : products[i].category.v = c}))
    /\ Len(products) = 0
         => res.body.averagePrice = Whole(0) /\ DOMAIN res.body.categoryCounts = {}

-----------------------------------------------------------------------------
(* Concurrently arriving requests.  Under SpecConc req maps each open      *)
(* connection to its request in progress (the request, the position of its *)
(* middleware chain, and the handler's local productIndex) and res maps    *)
(* each connection to the response written on it.  A body is read from the *)
(* socket asynchronously; once express.json() has the whole body, the      *)
(* chain authenticateApiKey, validateProduct, handler runs as synchronous  *)
(* calls of next(), and the handlers contain no await.                     *)

\* connections open at the same time
MaxConnections == 2

Connections == 1..MaxConnections

\* positions at which a connection's callback is on the call stack; a
\* rejected promise of asyncHandler is settled by a microtask, which runs
\* before any other connection's callback
StackPositions == {"auth", "validate", "lookup", "write", "rejected"}

OnStack(c) == req[c].pc \in StackPositions

InFlight(r, pc, productIndex) == [r |-> r, pc |-> pc, productIndex |-> productIndex]

Idle == InFlight(NoRequest, "idle", -1)

\* a scheduler that lets callbacks of several connections run interleaved
Preemptive(c) == TRUE

\* the single JavaScript thread: a callback of connection c runs only while
\* no callback of another connection is on the call stack
RunToCompletion(c) == \A d \in Connections \ {c} : ~OnStack(d)

InitConc ==
  /\ products = SeedProducts
  /\ issued = NumSeeds
  /\ removed = {}
  /\ req = [c \in Connections |-> Idle]
  /\ res = [c \in Connections |-> NoResponse]

ConcIds == {Uuid(1), Uuid(2)}

ConcRequests ==
  {PutRequest(ValidKey, TRUE, LampBody, id) : id \in ConcIds}
    \cup {PutRequest(ValidKey, TRUE, ShortBody, Uuid(1))}
    \cup {DeleteRequest(ValidKey, TRUE, id) : id \in ConcIds}
    \cup {DeleteRequest(Undefined, TRUE, Uuid(1))}
    \cup {PostRequest(ValidKey, TRUE, LampBody), PostRequest(ValidKey, FALSE, EmptyBody)}

\* POST requests that may still call uuidv4()
PendingInserts ==
  Cardinality({c \in Connections : req[c].r.op = "POST" /\ req[c].pc \notin {"idle", "done"}})

\* the connection's chain ends with a response
Respond(c, response) ==
  /\ req' = [req EXCEPT ![c].pc = "done"]
  /\ res' = [res EXCEPT ![c] = response]

\* a request arrives on a connection that has none in progress
Arrive(c, r) ==
  /\ req[c].pc \in {"idle", "done"}
  /\ r.op = "POST" => issued + PendingInserts < NumSeeds + MaxInserts
  /\ req' = [req EXCEPT ![c] = InFlight(r, "parsing", -1)]
  /\ res' = [res EXCEPT ![c] = NoResponse]
  /\ UNCHANGED <<products, issued, removed>>

\* express.json() has read the body: next() or next(err)
ParseBody(c) ==
  /\ req[c].pc = "parsing"
  /\ RunToCompletion(c)
  /\ IF JsonBodyParser(req[c].r) /= NoError
     THEN Respond(c, ErrorResponse(JsonBodyParser(req[c].r)))
     ELSE /\ req' = [req EXCEPT ![c].pc = "auth"]
          /\ UNCHANGED res
  /\ UNCHANGED <<products, issued, removed>>

\* authenticateApiKey: next() or next(err)
Authenticate(c) ==
  /\ req[c].pc = "auth"
  /\ RunToCompletion(c)
  /\ IF AuthenticateApiKey(req[c].r) /= NoError
     THEN Respond(c, ErrorResponse(AuthenticateApiKey(req[c].r)))
     ELSE /\ req' = [req EXCEPT ![c].pc = IF req[c].r.op = "DELETE" THEN "lookup"
                                                                    ELSE "validate"]
          /\ UNCHANGED res
  /\ UNCHANGED <<products, issued, removed>>

\* validateProduct on the POST and PUT routes: next() or next(err)
Validate(c) ==
  /\ req[c].pc = "validate"
  /\ RunToCompletion(c)
  /\ IF ValidateProduct(req[c].r) /= NoError
     THEN Respond(c, ErrorResponse(ValidateProduct(req[c].r)))
     ELSE /\ req' = [req EXCEPT ![c].pc = IF req[c].r.op = "PUT" THEN "lookup" ELSE "write"]
          /\ UNCHANGED res
  /\ UNCHANGED <<products, issued, removed>>

\* const productIndex = products.findIndex(p => p.id === id), and the throw
\* for -1
Lookup(c) ==
  /\ req[c].pc = "lookup"
  /\ RunToCompletion(c)
  /\ LET productIndex == FindIndex(products, req[c].r.id)
     IN req' = [req EXCEPT ![c].productIndex = productIndex,
                           ![c].pc = IF productIndex = -1 THEN "rejected" ELSE "write"]
  /\ UNCHANGED <<products, issued, removed, res>>

\* Promise.resolve(fn(req, res, next)).catch(next)
CatchRejection(c) ==
  /\ req[c].pc = "rejected"
  /\ RunToCompletion(c)
  /\ Respond(c, ErrorResponse(NotFoundError("Product not found")))
  /\ UNCHANGED <<products, issued, removed>>

\* products.push(newProduct) and the 201 response
PushProduct(c) ==
  /\ req[c].pc = "write"
  /\ req[c].r.op = "POST"
  /\ RunToCompletion(c)
  /\ LET newProduct == NormalizedProduct(Uuidv4(issued), req[c].r.body)
     IN /\ products' = Append(products, newProduct)
        /\ Respond(c, [status |-> 201,
                       body |-> [message |-> "Product created successfully",
                                 product |-> newProduct]])
  /\ issued' = issued + 1
  /\ UNCHANGED removed

\* products[productIndex] = {...} and the response
ReplaceProduct(c) ==
  /\ req[c].pc = "write"
  /\ req[c].r.op = "PUT"
  /\ RunToCompletion(c)
  /\ products' = SetAt(products, req[c].productIndex,
                       NormalizedProduct(req[c].r.id, req[c].r.body))
  /\ Respond(c, [status |-> 200,
                 body |-> [message |-> "Product updated successfully",
                           product |-> products'[req[c].productIndex + 1]]])
  /\ UNCHANGED <<issued, removed>>

\* products.splice(productIndex, 1) and the response
RemoveProduct(c) ==
  /\ req[c].pc = "write"
  /\ req[c].r.op = "DELETE"
  /\ RunToCompletion(c)
  /\ products' = Splice(products, req[c].productIndex)
  /\ Respond(c, [status |-> 200,
                 body |-> [message |-> "Product deleted successfully",
                           product |-> products[req[c].productIndex + 1]]])
  /\ removed' = removed \cup {products[req[c].productIndex + 1].id}
  /\ UNCHANGED issued

NextConc ==
  \/ \E c \in Connections : \E r \in ConcRequests : Arrive(c, r)
  \/ \E c \in Connections : ParseBody(c)
  \/ \E c \in Connections : Authenticate(c)
  \/ \E c \in Connections : Validate(c)
  \/ \E c \in Connections : Lookup(c)
  \/ \E c \in Connections : CatchRejection(c)
  \/ \E c \in Connections : PushProduct(c)
  \/ \E c \in Connections : ReplaceProduct(c)
  \/ \E c \in Connections : RemoveProduct(c)

SpecConc == InitConc /\ [][NextConc]_vars

-----------------------------------------------------------------------------
(* Claims about concurrent requests under SpecConc.                        *)

\* the handler of connection c has looked its index up and not yet written
BetweenLookupAndWrite(c) == req[c].pc = "write" /\ req[c].r.op \in {"PUT", "DELETE"}

\* the index the handler holds is the position of the product with its id
IndexIsCurrent(c) ==
  /\ req[c].productIndex \in 0..(Len(products) - 1)
  /\ products[req[c].productIndex + 1].id = req[c].r.id

\* connection c's handler writes in this step
Writes(c) == req[c].pc = "write" /\ req'[c].pc = "done"

\* the step replaces the product with the requested id and no other
ReplacesOwn(c) ==
  /\ Len(products') = Len(products)
  /\ \A i \in 1..Len(products) :
       products'[i] = IF products[i].id = req[c].r.id
                      THEN NormalizedProduct(req[c].r.id, req[c].r.body)
                      ELSE products[i]

\* the step removes the product with the requested id and no other
RemovesOwn(c) ==
  /\ req[c].r.id \in Ids(products)
  /\ products' = SelectSeq(products, LAMBDA p : p.id /= req[c].r.id)

AtomicStep ==
  \A c \in Connections :
    /\ (OnStack(c) /\ req'[c] = req[c])
         => /\ products' = products
            /\ \A d \in Connections \ {c} :
                 req'[d].pc \in StackPositions \cup {"done"} => req'[d] = req[d]
    /\ (Writes(c) /\ req[c].r.op = "PUT") => ReplacesOwn(c)
    /\ (Writes(c) /\ req[c].r.op = "DELETE") => RemovesOwn(c)

\* C11: under any interleaving of concurrent requests, a request's
\* authentication, validation, lookup and mutation run as one uninterrupted
\* step: while one request's chain is running no other request's chain runs
\* or mutates the collection, the index a PUT or DELETE handler looked up
\* still points at the product with the requested id when it writes, and its
\* replace or remove affects exactly that product.
C11_Uninterrupted ==
  /\ [](\A c \in Connections :
          /\ OnStack(c) => \A d \in Connections \ {c} : ~OnStack(d)
          /\ BetweenLookupAndWrite(c) => IndexIsCurrent(c))
  /\ [][AtomicStep]_vars

\* a PUT handler holds the index it looked up for the second seed product
\* and has not written yet, while another connection's DELETE of the first
\* seed product, which would shift that index, is in flight
C11_Witness ==
  \E c, d \in Connections :
    /\ c /= d
    /\ req[c].r.op = "PUT" /\ req[c].r.id = Uuid(2) /\ BetweenLookupAndWrite(c)
    /\ req[c].productIndex = 1
    /\ req[d].r = DeleteRequest(ValidKey, TRUE, Uuid(1)) /\ req[d].pc = "parsing"
    /\ Uuid(1) \in Ids(products)

====
